---- MODULE Spec2Model ----
(***************************************************************************)
(* Model of WaterQualityDashboard (src/streamlit_app.py, a React          *)
(* component): the component state, its event handlers and timer          *)
(* callbacks, and the pure functions predictAmmonia, getRiskLevel and     *)
(* getPrescriptiveAdvice.                                                  *)
(*                                                                         *)
(* Numbers are fixed point.  pH and temperature are in thousandths        *)
(* (7.5 is 7500, 28.0 C is 28000); ammonia is in millionths of a mg/L      *)
(* (0.2 is 200000), so that every product and sum of predictAmmonia is an *)
(* exact integer.  Dates are seconds relative to the mount of the          *)
(* component.                                                              *)
(***************************************************************************)
EXTENDS Integers, Sequences, FiniteSets

(***************************************************************************)
(* Numbers of the source.                                                  *)
(***************************************************************************)
\* parseFloat of the text of an emptied number field: not a number.
NaN == -1000000000
\* useState(null): no prediction yet.
Null == -2000000000

InitialPh == 7500
InitialTemperature == 28000
SampleDays == 30
DayLength == 86400
HistoryLimit == 50

PhCenter == 7000
PhWeight == 80
TempCenter == 25000
TempWeight == 15
BaseAmmonia == 150000
JitterSpan == 50000

LowLimit == 200000
ModerateLimit == 400000

PhThreshold == 8000
TempThreshold == 28000
AdviceHighLimit == 400000
AdviceMediumLimit == 200000

SensorPhBase == 7000
SensorPhSpan == 2000
SensorTempBase == 25000
SensorTempSpan == 6000

(***************************************************************************)
(* JavaScript numbers: every comparison with NaN is false, every           *)
(* arithmetic operation on NaN gives NaN.                                  *)
(***************************************************************************)
IsNaN(x) == x = NaN

Lt(a, b) == ~IsNaN(a) /\ ~IsNaN(b) /\ a < b

Gt(a, b) == ~IsNaN(a) /\ ~IsNaN(b) /\ a > b

\* Math.max(0, x): NaN when x is NaN.
MathMax0(x) == IF IsNaN(x) THEN NaN ELSE IF x > 0 THEN x ELSE 0

\* parseFloat(x.toFixed(2)) of a value in thousandths: the nearest hundredth.
ToFixed2(x) == IF IsNaN(x) THEN NaN ELSE ((x + 5) \div 10) * 10

\* array.slice(0, n): the first n elements.
SliceFirst(s, n) == IF Len(s) <= n THEN s ELSE SubSeq(s, 1, n)

\* array.slice(-n): the last n elements, the whole array when it is shorter.
SliceLast(s, n) == IF Len(s) <= n THEN s ELSE SubSeq(s, Len(s) - n + 1, Len(s))

(***************************************************************************)
(* predictAmmonia(phValue, tempValue); jitter is Math.random() * 0.05.     *)
(***************************************************************************)
\* predictAmmonia returning predicted, without Math.max(0, .).
predictAmmoniaNoClamp(phValue, tempValue, jitter) ==
    IF IsNaN(phValue) \/ IsNaN(tempValue) THEN NaN
    ELSE BaseAmmonia + (phValue - PhCenter) * PhWeight
                     + (tempValue - TempCenter) * TempWeight + jitter

predictAmmonia(phValue, tempValue, jitter) ==
    LET phFactor == IF IsNaN(phValue) THEN NaN ELSE (phValue - PhCenter) * PhWeight
        tempFactor == IF IsNaN(tempValue) THEN NaN ELSE (tempValue - TempCenter) * TempWeight
        baseAmmonia == BaseAmmonia
        predicted == IF IsNaN(phFactor) \/ IsNaN(tempFactor) THEN NaN
                     ELSE baseAmmonia + phFactor + tempFactor + jitter
    IN  MathMax0(predicted)

(***************************************************************************)
(* getRiskLevel(ammoniaLevel).                                             *)
(***************************************************************************)
RiskLow == [level |-> "Low", color |-> "text-green-600",
            bg |-> "bg-green-50", border |-> "border-green-200"]

RiskModerate == [level |-> "Moderate", color |-> "text-yellow-600",
                 bg |-> "bg-yellow-50", border |-> "border-yellow-200"]

RiskHigh == [level |-> "High", color |-> "text-red-600",
             bg |-> "bg-red-50", border |-> "border-red-200"]

\* getRiskLevel with <= in place of <.
getRiskLevelInclusive(ammoniaLevel) ==
    IF ~IsNaN(ammoniaLevel) /\ ammoniaLevel <= LowLimit THEN RiskLow
    ELSE IF ~IsNaN(ammoniaLevel) /\ ammoniaLevel <= ModerateLimit THEN RiskModerate
    ELSE RiskHigh

getRiskLevel(ammoniaLevel) ==
    IF Lt(ammoniaLevel, LowLimit) THEN RiskLow
    ELSE IF Lt(ammoniaLevel, ModerateLimit) THEN RiskModerate
    ELSE RiskHigh

(***************************************************************************)
(* getPrescriptiveAdvice(phValue, tempValue, ammoniaLevel).  The icon of   *)
(* an entry is a function of its priority and is left out.                 *)
(***************************************************************************)
AdviceCritical ==
    [priority |-> "High",
     message |-> "Critical: Both pH and temperature are elevated. Immediate water change recommended (30-40%).",
     action |-> "Perform partial water change and increase aeration"]

AdvicePhElevated ==
    [priority |-> "Medium",
     message |-> "pH is elevated. This increases ammonia toxicity.",
     action |-> "Add pH buffer or perform gradual water change"]

AdviceTempHigh ==
    [priority |-> "Medium",
     message |-> "Water temperature is high. Reduce temperature to prevent ammonia formation.",
     action |-> "Increase aeration, reduce feeding, or add cooling system"]

AdviceAmmoniaHigh ==
    [priority |-> "High",
     message |-> "High ammonia detected! Immediate action required.",
     action |-> "Stop feeding, perform 40-50% water change, add ammonia neutralizer"]

AdviceAmmoniaModerate ==
    [priority |-> "Medium",
     message |-> "Moderate ammonia levels. Monitor closely.",
     action |-> "Reduce feeding by 50%, increase monitoring frequency"]

AdviceAmmoniaLow ==
    [priority |-> "Low",
     message |-> "Water quality is within acceptable range.",
     action |-> "Continue regular monitoring and maintenance"]

\* getPrescriptiveAdvice with >= in place of > in the environmental rule.
getPrescriptiveAdviceInclusive(phValue, tempValue, ammoniaLevel) ==
    LET ge(a, b) == ~IsNaN(a) /\ ~IsNaN(b) /\ a >= b
        advice1 == IF ge(phValue, PhThreshold) /\ ge(tempValue, TempThreshold)
                   THEN << AdviceCritical >>
                   ELSE IF ge(phValue, PhThreshold)
                   THEN << AdvicePhElevated >>
                   ELSE IF ge(tempValue, TempThreshold)
                   THEN << AdviceTempHigh >>
                   ELSE << >>
    IN  IF Gt(ammoniaLevel, AdviceHighLimit)
        THEN Append(advice1, AdviceAmmoniaHigh)
        ELSE IF Gt(ammoniaLevel, AdviceMediumLimit)
        THEN Append(advice1, AdviceAmmoniaModerate)
        ELSE Append(advice1, AdviceAmmoniaLow)

\* getPrescriptiveAdvice with the three environmental tests as separate ifs
\* (no else), so that more than one environmental entry can be pushed.
getPrescriptiveAdviceNoElse(phValue, tempValue, ammoniaLevel) ==
    LET advice1 == IF Gt(phValue, PhThreshold) /\ Gt(tempValue, TempThreshold)
                   THEN << AdviceCritical >> ELSE << >>
        advice2 == IF Gt(phValue, PhThreshold)
                   THEN Append(advice1, AdvicePhElevated) ELSE advice1
        advice3 == IF Gt(tempValue, TempThreshold)
                   THEN Append(advice2, AdviceTempHigh) ELSE advice2
    IN  IF Gt(ammoniaLevel, AdviceHighLimit)
        THEN Append(advice3, AdviceAmmoniaHigh)
        ELSE IF Gt(ammoniaLevel, AdviceMediumLimit)
        THEN Append(advice3, AdviceAmmoniaModerate)
        ELSE Append(advice3, AdviceAmmoniaLow)

\* getPrescriptiveAdvice with >= in place of > in the ammonia rule, the
\* boundaries of getRiskLevel.
getPrescriptiveAdviceAmmoniaInclusive(phValue, tempValue, ammoniaLevel) ==
    LET ge(a, b) == ~IsNaN(a) /\ ~IsNaN(b) /\ a >= b
        advice1 == IF Gt(phValue, PhThreshold) /\ Gt(tempValue, TempThreshold)
                   THEN << AdviceCritical >>
                   ELSE IF Gt(phValue, PhThreshold)
                   THEN << AdvicePhElevated >>
                   ELSE IF Gt(tempValue, TempThreshold)
                   THEN << AdviceTempHigh >>
                   ELSE << >>
    IN  IF ge(ammoniaLevel, AdviceHighLimit)
        THEN Append(advice1, AdviceAmmoniaHigh)
        ELSE IF ge(ammoniaLevel, AdviceMediumLimit)
        THEN Append(advice1, AdviceAmmoniaModerate)
        ELSE Append(advice1, AdviceAmmoniaLow)

getPrescriptiveAdvice(phValue, tempValue, ammoniaLevel) ==
    LET advice0 == << >>
        advice1 == IF Gt(phValue, PhThreshold) /\ Gt(tempValue, TempThreshold)
                   THEN Append(advice0, AdviceCritical)
                   ELSE IF Gt(phValue, PhThreshold)
                   THEN Append(advice0, AdvicePhElevated)
                   ELSE IF Gt(tempValue, TempThreshold)
                   THEN Append(advice0, AdviceTempHigh)
                   ELSE advice0
        advice2 == IF Gt(ammoniaLevel, AdviceHighLimit)
                   THEN Append(advice1, AdviceAmmoniaHigh)
                   ELSE IF Gt(ammoniaLevel, AdviceMediumLimit)
                   THEN Append(advice1, AdviceAmmoniaModerate)
                   ELSE Append(advice1, AdviceAmmoniaLow)
    IN  advice2

(***************************************************************************)
(* State of the component.                                                 *)
(***************************************************************************)
VARIABLES
    ph,              \* useState(7.5)
    temperature,     \* useState(28.0)
    prediction,      \* useState(null)
    historicalData,  \* useState([]): sequence of readings
    loading,         \* useState(false)
    realTimeMode,    \* useState(false)
    mounted,         \* the mount effect (sample data) has run
    timeouts,        \* pending setTimeout callbacks of handlePredict, each
                     \* with the ph and temperature its closure captured
    intervals,       \* number of active setInterval timers
    clock,           \* the time new Date() reads, seconds since mount
    inserted,        \* history variable: every reading ever put in
                     \* historicalData, in order, with the handler that put
                     \* it and the value of realTimeMode at that moment
    clicks,          \* history variable: accepted clicks of the predict button
    applied,         \* pure-function harness: the function applied, or "none"
    argPh, argTemp, argAmmonia, argJitter,   \* its arguments
    result           \* its result

vars == << ph, temperature, prediction, historicalData, loading, realTimeMode,
           mounted, timeouts, intervals, clock, inserted, clicks,
           applied, argPh, argTemp, argAmmonia, argJitter, result >>

sessionVars == << ph, temperature, prediction, historicalData, loading,
                  realTimeMode, mounted, timeouts, intervals, clock,
                  inserted, clicks >>

harnessVars == << applied, argPh, argTemp, argAmmonia, argJitter, result >>

(***************************************************************************)
(* Bounds of the exploration.                                              *)
(***************************************************************************)
\* readings appended after the sample data, in Spec
MaxAppends == 2
\* readings appended after the sample data, in SpecFifo
MaxFifoAppends == 21
\* manual predictions in SpecFifo
MaxFifoPredicts == 1

\* Values typed into the pH field: parseFloat gives NaN for an emptied field.
PhInputs == {NaN, 8100}

TempInputs == {29000}

\* Math.random() * 0.05 of predictAmmonia, in millionths: 0 .. JitterSpan - 1.
Jitters == {0, JitterSpan - 1}

\* The three Math.random() of a timer tick: 7.0 + Math.random() * 2,
\* 25 + Math.random() * 6, and the jitter of its predictAmmonia.
SensorDraws ==
    { << SensorPhBase + 4, SensorTempBase + 4, 0 >>,
      << SensorPhBase + SensorPhSpan - 4, SensorTempBase + SensorTempSpan - 4,
         JitterSpan - 1 >> }

\* Seconds between two readings of new Date().
Elapsed == {0, 1}

\* Math.random() of the sample data, per day i: the terms added to pH 7.0,
\* temperature 25 and ammonia 0.1.
SampleRandom ==
    { [i \in 0..SampleDays |->
          << (i * 677) % 2000, (i * 1931) % 6000, (i * 130003) % 400000 >>] }

FifoJitters == {0}

FifoSensorDraws == { << SensorPhBase + 504, SensorTempBase + 1004, 0 >> }

FifoElapsed == {3}

FifoPhInputs == {8100}

(***************************************************************************)
(* generateHistoricalData: one entry per day, i = 30 down to 0, pushed in  *)
(* that order.                                                             *)
(***************************************************************************)
SampleEntry(now, rnd, i) ==
    [fullDate |-> now - i * DayLength,
     pH |-> 7000 + rnd[i][1],
     temperature |-> 25000 + rnd[i][2],
     ammonia |-> 100000 + rnd[i][3]]

\* generateHistoricalData with the loop running i = 0 up to 30.
generateHistoricalDataAscending(now, rnd) ==
    [k \in 1..(SampleDays + 1) |-> SampleEntry(now, rnd, k - 1)]

generateHistoricalData(now, rnd) ==
    [k \in 1..(SampleDays + 1) |-> SampleEntry(now, rnd, SampleDays + 1 - k)]

Log(by, readings) ==
    [k \in 1..Len(readings) |-> [by |-> by, mode |-> realTimeMode, reading |-> readings[k]]]

Appended == Len(inserted) - (SampleDays + 1)

(***************************************************************************)
(* Initial state: the component as useState constructs it, before any     *)
(* effect has run.                                                         *)
(***************************************************************************)
SessionInit ==
    /\ ph = InitialPh
    /\ temperature = InitialTemperature
    /\ prediction = Null
    /\ historicalData = << >>
    /\ loading = FALSE
    /\ realTimeMode = FALSE
    /\ mounted = FALSE
    /\ timeouts = << >>
    /\ intervals = 0
    /\ clock = 0
    /\ inserted = << >>
    /\ clicks = 0

HarnessIdle ==
    /\ applied = "none"
    /\ argPh = InitialPh
    /\ argTemp = InitialTemperature
    /\ argAmmonia = 0
    /\ argJitter = 0
    /\ result = Null

Init == SessionInit /\ HarnessIdle

(***************************************************************************)
(* Mount: useEffect(..., []) loads the sample data.  The effect of         *)
(* realTimeMode runs too and does nothing, realTimeMode being false.  React *)
(* runs the mount effects before it handles any event.                     *)
(***************************************************************************)
LoadSampleData(rnd) ==
    /\ ~mounted
    /\ mounted' = TRUE
    /\ historicalData' = generateHistoricalData(clock, rnd)
    /\ inserted' = Log("sample", generateHistoricalData(clock, rnd))
    /\ UNCHANGED << ph, temperature, prediction, loading, realTimeMode,
                    timeouts, intervals, clock, clicks >>
    /\ UNCHANGED harnessVars

(***************************************************************************)
(* onChange of the pH and temperature fields (number and range), disabled  *)
(* in real-time mode.                                                      *)
(***************************************************************************)
SetPh(value) ==
    /\ mounted
    /\ ~realTimeMode
    /\ ph' = value
    /\ UNCHANGED << temperature, prediction, historicalData, loading,
                    realTimeMode, mounted, timeouts, intervals, clock,
                    inserted, clicks >>
    /\ UNCHANGED harnessVars

SetTemperature(value) ==
    /\ mounted
    /\ ~realTimeMode
    /\ temperature' = value
    /\ UNCHANGED << ph, prediction, historicalData, loading, realTimeMode,
                    mounted, timeouts, intervals, clock, inserted, clicks >>
    /\ UNCHANGED harnessVars

(***************************************************************************)
(* Click on the real-time toggle: setRealTimeMode(!realTimeMode), then the *)
(* effect of realTimeMode: the cleanup of the previous run clears its      *)
(* interval, the new run sets one when the mode is on.                     *)
(***************************************************************************)
\* The effect without its cleanup (no return () => clearInterval(interval)).
RealTimeEffectNoCleanup(mode, active) == IF mode THEN active + 1 ELSE active

\* mode is the new value of realTimeMode, active the number of active
\* intervals.  The previous run of the effect returned a cleanup exactly when
\* it ran with realTimeMode true, that is when the mode now turns false.
RealTimeEffect(mode, active) ==
    LET cleared == IF ~mode THEN active - 1 ELSE active
    IN  IF mode THEN cleared + 1 ELSE cleared

ToggleRealTimeMode ==
    /\ mounted
    /\ realTimeMode' = ~realTimeMode
    /\ intervals' = RealTimeEffect(~realTimeMode, intervals)
    /\ UNCHANGED << ph, temperature, prediction, historicalData, loading,
                    mounted, timeouts, clock, inserted, clicks >>
    /\ UNCHANGED harnessVars

(***************************************************************************)
(* Click on the predict button, disabled={loading || realTimeMode}:        *)
(* handlePredict sets loading and schedules the callback, whose closure    *)
(* holds the ph and temperature of this render.                            *)
(***************************************************************************)
\* The button with disabled={realTimeMode}.
PredictDisabledIgnoresLoading == realTimeMode

PredictDisabled == loading \/ realTimeMode

handlePredict ==
    /\ mounted
    /\ ~PredictDisabled
    /\ loading' = TRUE
    /\ timeouts' = Append(timeouts, [ph |-> ph, temperature |-> temperature])
    /\ clicks' = clicks + 1
    /\ UNCHANGED << ph, temperature, prediction, historicalData, realTimeMode,
                    mounted, intervals, clock, inserted >>
    /\ UNCHANGED harnessVars

(***************************************************************************)
(* The setTimeout callback of handlePredict, 500 ms after the click.       *)
(***************************************************************************)
ManualReading(now, closure, ammoniaPrediction) ==
    [fullDate |-> now,
     pH |-> closure.ph,
     temperature |-> closure.temperature,
     ammonia |-> ammoniaPrediction]

PredictTimeout(jitter, dt) ==
    /\ timeouts # << >>
    /\ LET closure == Head(timeouts)
           ammoniaPrediction == predictAmmonia(closure.ph, closure.temperature, jitter)
           now == clock + dt
           reading == ManualReading(now, closure, ammoniaPrediction)
       IN  /\ prediction' = ammoniaPrediction
           /\ loading' = FALSE
           /\ clock' = now
           /\ historicalData' = SliceLast(Append(historicalData, reading), HistoryLimit)
           /\ inserted' = inserted \o Log("manual", << reading >>)
    /\ timeouts' = Tail(timeouts)
    /\ UNCHANGED << ph, temperature, realTimeMode, mounted, intervals, clicks >>
    /\ UNCHANGED harnessVars

(***************************************************************************)
(* The setInterval callback, every 3000 ms while an interval is active.    *)
(***************************************************************************)
TickReading(now, newPh, newTemp, jitter) ==
    [fullDate |-> now,
     pH |-> newPh,
     temperature |-> newTemp,
     ammonia |-> predictAmmonia(newPh, newTemp, jitter)]

IntervalTick(newPh, newTemp, jitter, dt) ==
    /\ intervals > 0
    /\ ph' = ToFixed2(newPh)
    /\ temperature' = ToFixed2(newTemp)
    /\ LET now == clock + dt
           reading == TickReading(now, newPh, newTemp, jitter)
       IN  /\ clock' = now
           /\ historicalData' = SliceLast(Append(historicalData, reading), HistoryLimit)
           /\ inserted' = inserted \o Log("tick", << reading >>)
    /\ UNCHANGED << prediction, loading, realTimeMode, mounted, timeouts,
                    intervals, clicks >>
    /\ UNCHANGED harnessVars

(***************************************************************************)
(* What the render hands to the presentation.                              *)
(***************************************************************************)
risk == IF prediction # Null THEN getRiskLevel(prediction) ELSE Null

prescriptiveAdvice ==
    IF prediction # Null THEN getPrescriptiveAdvice(ph, temperature, prediction)
    ELSE << >>

(***************************************************************************)
(* The session: any interleaving of the handlers and the timer callbacks.  *)
(* The delays of the timers (500 ms, 3000 ms) are not measured: a pending  *)
(* callback may fire at any later moment, which covers every schedule of   *)
(* the browser.  new Date() never runs backwards.                          *)
(***************************************************************************)
Next ==
    \/ \E rnd \in SampleRandom : LoadSampleData(rnd)
    \/ \E value \in PhInputs : SetPh(value)
    \/ \E value \in TempInputs : SetTemperature(value)
    \/ ToggleRealTimeMode
    \/ (Appended + Len(timeouts) < MaxAppends /\ handlePredict)
    \/ \E jitter \in Jitters, dt \in Elapsed : PredictTimeout(jitter, dt)
    \/ \E draw \in SensorDraws, dt \in Elapsed :
          /\ Appended + Len(timeouts) < MaxAppends
          /\ IntervalTick(draw[1], draw[2], draw[3], dt)

Spec == Init /\ [][Next]_vars

(***************************************************************************)
(* The same session with one value per random draw and at most             *)
(* MaxFifoPredicts manual predictions, long enough for historicalData to   *)
(* pass HistoryLimit entries.                                              *)
(***************************************************************************)
NextFifo ==
    \/ \E rnd \in SampleRandom : LoadSampleData(rnd)
    \/ \E value \in FifoPhInputs : SetPh(value)
    \/ ToggleRealTimeMode
    \/ /\ Appended + Len(timeouts) < MaxFifoAppends
       /\ clicks < MaxFifoPredicts
       /\ handlePredict
    \/ \E jitter \in FifoJitters, dt \in FifoElapsed : PredictTimeout(jitter, dt)
    \/ \E draw \in FifoSensorDraws, dt \in FifoElapsed :
          /\ Appended + Len(timeouts) < MaxFifoAppends
          /\ IntervalTick(draw[1], draw[2], draw[3], dt)

SpecFifo == Init /\ [][NextFifo]_vars

(***************************************************************************)
(* The pure functions applied to arguments drawn from grids around their  *)
(* thresholds.                                                             *)
(***************************************************************************)
PhGrid == {0, 7000, 7500, 8000, 8001, 8500, 14000, 20000}

TempGrid == {0, 25000, 28000, 28001, 29000, 40000, 50000}

AmmoniaGrid == {-100000, 0, 100000, 199999, 200000, 200001, 300000,
                399999, 400000, 400001, 500000, 2000000}

JitterGrid == {0, 25000, JitterSpan - 1}

FunctionsInit ==
    /\ SessionInit
    /\ applied = "none"
    /\ argPh \in PhGrid
    /\ argTemp \in TempGrid
    /\ argAmmonia \in AmmoniaGrid
    /\ argJitter \in JitterGrid
    /\ result = Null

Apply(name, value) ==
    /\ applied = "none"
    /\ applied' = name
    /\ result' = value
    /\ UNCHANGED << argPh, argTemp, argAmmonia, argJitter >>
    /\ UNCHANGED sessionVars

ApplyPredictAmmonia ==
    Apply("predictAmmonia", predictAmmonia(argPh, argTemp, argJitter))

ApplyGetRiskLevel ==
    Apply("getRiskLevel", getRiskLevel(argAmmonia))

ApplyGetPrescriptiveAdvice ==
    Apply("getPrescriptiveAdvice", getPrescriptiveAdvice(argPh, argTemp, argAmmonia))

\* The render applies both functions to the same ammonia value: risk and
\* prescriptiveAdvice of one prediction.
ApplyRiskAndAdvice ==
    Apply("riskAndAdvice",
          [risk |-> getRiskLevel(argAmmonia),
           prescriptiveAdvice |-> getPrescriptiveAdvice(argPh, argTemp, argAmmonia)])

NextFunctions ==
    \/ ApplyPredictAmmonia
    \/ ApplyGetRiskLevel
    \/ ApplyGetPrescriptiveAdvice
    \/ ApplyRiskAndAdvice

SpecFunctions == FunctionsInit /\ [][NextFunctions]_vars

(***************************************************************************)
(* Properties.                                                             *)
(***************************************************************************)
ManualEntries == {k \in DOMAIN inserted : inserted[k].by = "manual"}

TickEntries == {k \in DOMAIN inserted : inserted[k].by = "tick"}

LastOf(S) == CHOOSE k \in S : \A j \in S : j <= k

Min(a, b) == IF a <= b THEN a ELSE b

\* C1: no manual prediction completes (sets the displayed prediction,
\* appends its reading) in a state where realTimeMode is true.
C1_ManualNeverCompletesInRealTime ==
    \A k \in ManualEntries : ~inserted[k].mode

\* C2: historicalData holds at most HistoryLimit = 50 readings, and they are
\* the last min(50, total) readings ever inserted, in insertion order, each
\* unaltered.
C2_HistoryIsBoundedFifo ==
    /\ Len(historicalData) <= 50
    /\ Len(historicalData) = Min(50, Len(inserted))
    /\ \A k \in 1..Len(historicalData) :
          historicalData[k] =
              inserted[Len(inserted) - Len(historicalData) + k].reading

C2_Witness ==
    /\ Len(inserted) > 50
    /\ Len(historicalData) = 50
    /\ ManualEntries # {}
    /\ TickEntries # {}
    /\ historicalData[1] = inserted[Len(inserted) - 49].reading

\* C3: whenever a prediction is displayed, the displayed risk tier and the
\* displayed advice are those of the latest reading of the history.
C3_DisplayIsOfLatestReading ==
    (prediction # Null /\ historicalData # << >>) =>
        LET latest == historicalData[Len(historicalData)]
        IN  /\ risk = getRiskLevel(latest.ammonia)
            /\ prescriptiveAdvice =
                  getPrescriptiveAdvice(latest.pH, latest.temperature, latest.ammonia)

\* C4: the history is in chronological order: the fullDate of consecutive
\* entries never decreases.
C4_HistoryIsChronological ==
    \A k \in 1..(Len(historicalData) - 1) :
        historicalData[k].fullDate <= historicalData[k + 1].fullDate

C4_Witness ==
    /\ Appended = 2
    /\ ManualEntries # {}
    /\ TickEntries # {}
    /\ historicalData[Len(historicalData) - 1].fullDate
          = historicalData[Len(historicalData)].fullDate
    /\ historicalData[1].fullDate < historicalData[2].fullDate

\* C5: getRiskLevel(a) is Low iff a < 0.2, Moderate iff 0.2 <= a < 0.4 and
\* High iff a >= 0.4; 0.2 is Moderate and 0.4 is High.
C5_RiskLevelThresholds ==
    applied = "getRiskLevel" =>
        /\ result \in {RiskLow, RiskModerate, RiskHigh}
        /\ (result.level = "Low") <=> (argAmmonia < 200000)
        /\ (result.level = "Moderate") <=> (200000 <= argAmmonia /\ argAmmonia < 400000)
        /\ (result.level = "High") <=> (argAmmonia >= 400000)

C5_Witness ==
    /\ applied = "getRiskLevel"
    /\ argAmmonia = 400000
    /\ result.level = "High"

\* The rule table of C6: the environmental entry by first match, then the
\* ammonia entry, every comparison strict.
TableEnvironmental(p, t) ==
    CASE p > 8000 /\ t > 28000 -> << AdviceCritical >>
      [] p > 8000 /\ ~(t > 28000) -> << AdvicePhElevated >>
      [] ~(p > 8000) /\ t > 28000 -> << AdviceTempHigh >>
      [] OTHER -> << >>

TableAmmonia(a) ==
    CASE a > 400000 -> << AdviceAmmoniaHigh >>
      [] a <= 400000 /\ a > 200000 -> << AdviceAmmoniaModerate >>
      [] OTHER -> << AdviceAmmoniaLow >>

\* C6: getPrescriptiveAdvice returns exactly the rule table: the
\* environmental entry (High critical, Medium pH elevated, Medium temperature
\* high, or none), then the ammonia entry (High, Medium or Low); at
\* (8.0, 28.0, 0.1) only the Low ammonia entry.
C6_AdviceIsRuleTable ==
    applied = "getPrescriptiveAdvice" =>
        /\ result = TableEnvironmental(argPh, argTemp) \o TableAmmonia(argAmmonia)
        /\ (argPh = 8000 /\ argTemp = 28000 /\ argAmmonia = 100000) =>
              (Len(result) = 1 /\ result[1].priority = "Low")
        /\ (argPh > 8000 /\ argTemp > 28000) => result[1].priority = "High"
        /\ (argAmmonia > 400000) => result[Len(result)].priority = "High"

C6_Witness ==
    /\ applied = "getPrescriptiveAdvice"
    /\ argPh = 8000
    /\ argTemp = 28000
    /\ argAmmonia = 100000
    /\ result = << AdviceAmmoniaLow >>

EnvironmentalEntries == {AdviceCritical, AdvicePhElevated, AdviceTempHigh}

AmmoniaEntries == {AdviceAmmoniaHigh, AdviceAmmoniaModerate, AdviceAmmoniaLow}

\* C7: getPrescriptiveAdvice returns 1 or 2 entries: exactly one ammonia
\* entry, which is last, preceded by at most one environmental entry.
C7_AdviceShape ==
    applied = "getPrescriptiveAdvice" =>
        /\ Len(result) \in {1, 2}
        /\ result[Len(result)] \in AmmoniaEntries
        /\ Cardinality({k \in DOMAIN result : result[k] \in AmmoniaEntries}) = 1
        /\ Len(result) = 2 => result[1] \in EnvironmentalEntries

C7_Witness ==
    /\ applied = "getPrescriptiveAdvice"
    /\ Len(result) = 2
    /\ result[1] = AdviceCritical
    /\ result[2] = AdviceAmmoniaHigh

\* 0.15 + (pH - 7.0) * 0.08 + (temperature - 25.0) * 0.015 + jitter
RawAmmonia(p, t, j) == 150000 + (p - 7000) * 80 + (t - 25000) * 15 + j

C9_TicksOnlyInRealTimeMode ==
    /\ \A k \in TickEntries : inserted[k].mode
    /\ intervals <= 1
    /\ (intervals = 1) <=> realTimeMode

C9_Witness ==
    /\ ~realTimeMode
    /\ intervals = 0
    /\ TickEntries # {}
    /\ Len(inserted) \in TickEntries

\* C10: loading is true exactly while a completion callback is pending, at
\* most one is pending, every accepted click has appended exactly one reading
\* or is still pending, and the displayed prediction is the ammonia of the
\* reading of the latest completed click.
C10_OnePendingPredictionPerClick ==
    /\ loading <=> (timeouts # << >>)
    /\ Len(timeouts) <= 1
    /\ Cardinality(ManualEntries) + Len(timeouts) = clicks
    /\ (prediction = Null) <=> (ManualEntries = {})
    /\ ManualEntries # {} =>
          inserted[LastOf(ManualEntries)].reading.ammonia = prediction

C10_Witness ==
    /\ clicks = 2
    /\ Cardinality(ManualEntries) = 2
    /\ ~loading
    /\ inserted[LastOf(ManualEntries)].reading.ammonia = prediction
    /\ \E k \in ManualEntries : inserted[k].reading.ammonia # prediction

\* The priority that names the same tier: Low with Low, Medium with
\* Moderate, High with High.
PriorityOfTier(level) ==
    CASE level = "Low" -> "Low"
      [] level = "Moderate" -> "Medium"
      [] level = "High" -> "High"

\* C11: for every ammonia value other than exactly 0.2 and 0.4 the priority
\* of the ammonia advice entry agrees with the risk tier; at 0.2 the tier is
\* Moderate and the priority Low, at 0.4 the tier is High and the priority
\* Medium.
C11_TierAndPriorityDifferOnlyAtBoundaries ==
    applied = "riskAndAdvice" =>
        LET tier == result.risk.level
            entry == result.prescriptiveAdvice[Len(result.prescriptiveAdvice)]
        IN  /\ entry \in AmmoniaEntries
            /\ (argAmmonia \notin {200000, 400000}) =>
                  entry.priority = PriorityOfTier(tier)
            /\ (argAmmonia = 200000) => (tier = "Moderate" /\ entry.priority = "Low")
            /\ (argAmmonia = 400000) => (tier = "High" /\ entry.priority = "Medium")

C11_Witness ==
    /\ applied = "riskAndAdvice"
    /\ argAmmonia = 400000
    /\ result.risk.level = "High"
    /\ result.prescriptiveAdvice[Len(result.prescriptiveAdvice)] = AdviceAmmoniaModerate

====
